---- MODULE Spec2Model ----
(***************************************************************************)
(* Order Status Monitor of SwapSmith (bot/src/services/order-monitor):     *)
(* the OrderMonitor class, its backoff policy, its tick loop and its       *)
(* pollOrder pipeline, together with the collaborators it is wired to in   *)
(* bot.ts (the orders table, the SideShift status provider and the         *)
(* notification callback).                                                 *)
(***************************************************************************)
EXTENDS Integers, Sequences, FiniteSets, Bags, TLC

\* ------------------------------------------------------------ constants

\* Maximum concurrent API calls to SideShift.
MAX_CONCURRENT == 5

\* How often the tick loop runs (ms).
TICK_INTERVAL == 10000

\* Terminal statuses: orders in these states stop being tracked.
TERMINAL_STATUSES == {"settled", "expired", "refunded", "failed"}

\* The statuses the spec and the tests name as non-terminal.
NON_TERMINAL_STATUSES == {"pending", "waiting", "processing"}

\* ------------------------------------------------------------ bounds

\* Number of clock advances of ClockStep ms a behaviour may take.
MaxClockSteps == 2

\* Number of TrackedOrder objects the monitor may allocate.
MaxObjs == 2

\* Granularity of the clock: time is observed at the instants the timer may fire.
ClockStep == TICK_INTERVAL

\* Date.now() at construction: far enough from the epoch for lastChecked = 0 to mean "never".
StartTime == 2 * 3600000

\* Order ids.
OrderIds == {"o1", "o2"}

\* The user who places an order.
OwnerOf(o) == IF o = "o1" THEN 100 ELSE 200

\* ------------------------------------------------------------ pure functions

\* A getBackoffInterval whose thresholds belong to the lower band.
getBackoffIntervalInclusive(ageMs) ==
    IF ageMs <= 5 * 60000 THEN 15000
    ELSE IF ageMs <= 30 * 60000 THEN 60000
    ELSE IF ageMs <= 2 * 3600000 THEN 5 * 60000
    ELSE 15 * 60000

\* Returns the polling interval (ms) for an order based on its age.
getBackoffInterval(ageMs) ==
    IF ageMs < 5 * 60000 THEN 15000
    ELSE IF ageMs < 30 * 60000 THEN 60000
    ELSE IF ageMs < 2 * 3600000 THEN 5 * 60000
    ELSE 15 * 60000

\* TERMINAL_STATUSES.has(status)
IsTerminal(status) == status \in TERMINAL_STATUSES

\* Array.prototype.slice(start, end) on a sequence (0-based, end exclusive,
\* negative indices count from the end, out-of-range indices are clamped).
Clamp(i, len) == IF i < 0 THEN (IF len + i < 0 THEN 0 ELSE len + i)
                 ELSE IF i > len THEN len ELSE i
Slice(s, start, end) ==
    LET from == Clamp(start, Len(s))
        to   == Clamp(end, Len(s))
    IN IF from >= to THEN <<>> ELSE SubSeq(s, from + 1, to)

\* ------------------------------------------------------------ state

VARIABLES
    now,              \* Date.now()
    tickTimer,        \* this.tickTimer: 0 for null, else the handle of the interval timer
    timers,           \* the interval timers alive in the event loop: [id, fireAt]
    heap,             \* every TrackedOrder object allocated so far, by reference
    tracked,          \* this.tracked: the references held by the Map, in insertion order
    activePollCount,  \* this.activePollCount
    polls,            \* pollOrder invocations suspended at an await (a bag)
    db,               \* the orders table: order id -> row or NoRow
    provider,         \* the status SideShift currently reports for each order
    calls,            \* per order id: updateOrderStatus results and onStatusChange calls, in order
    pollErrors,       \* console.error: the order ids whose getOrderStatus failure was logged
                      \* (and LoadError once a getPendingOrders failure was logged)
    unhandled,        \* whether a rejection has escaped tick()
    portfolioRun,     \* the executePortfolioStrategy call in progress, its locals and result
    dca               \* the DCAScheduler: its interval handle, the live intervals, the
                      \* checkSchedules calls in flight, the schedule row, the orders created

\* The portfolio service and the DCA scheduler, as opposed to the order monitor.
services == <<portfolioRun, dca>>

vars == <<now, tickTimer, timers, heap, tracked, activePollCount, polls, db,
          provider, calls, pollErrors, unhandled, portfolioRun, dca>>

NoRow == [status |-> "none", telegramId |-> 0, createdAt |-> 0]

\* No executePortfolioStrategy call has been made.
IdlePortfolioRun ==
    [pc |-> "idle", portfolio |-> <<>>, i |-> 0, remainingAmount |-> 0,
     successfulOrders |-> <<>>, failedSwaps |-> <<>>, quotes |-> 0, error |-> ""]

\* A DCAScheduler after construction (checkInterval = null), with no schedule row.
IdleDca ==
    [checkInterval |-> 0, intervals |-> {}, checks |-> EmptyBag, nextExecution |-> 0,
     orders |-> <<>>]

\* The portfolio service and the DCA scheduler are not in use.
ServicesIdle == portfolioRun = IdlePortfolioRun /\ dca = IdleDca
NoDate == 0 - 1

\* The status the provider may report after status s: an order progresses from
\* pending through processing to a terminal status, which is final.
ProviderNext(s) ==
    IF s = "pending" THEN {"processing", "settled"}
    ELSE IF s = "processing" THEN {"settled"}
    ELSE {}

\* Map.has / Map.get on a registry given as (heap h, map t).
HasIn(h, t, orderId) == \E i \in DOMAIN t : h[t[i]].orderId = orderId
GetIn(h, t, orderId) == t[CHOOSE i \in DOMAIN t : h[t[i]].orderId = orderId]
Has(orderId) == HasIn(heap, tracked, orderId)
Get(orderId) == GetIn(heap, tracked, orderId)

\* trackedCount
trackedCount == Len(tracked)

\* The polls in flight, as a set, and their number.
PollSet == BagToSet(polls)
InFlight == BagCardinality(polls)
PollsOn(orderId) == {p \in PollSet : heap[p.ref].orderId = orderId}

\* The state after construction, for the order ids of a scenario.
InitFor(ids) ==
    /\ now = StartTime
    /\ tickTimer = 0
    /\ timers = {}
    /\ heap = <<>>
    /\ tracked = <<>>
    /\ activePollCount = 0
    /\ polls = EmptyBag
    /\ db = [o \in ids |-> NoRow]
    /\ provider = [o \in ids |-> "pending"]
    /\ calls = [o \in ids |-> <<>>]
    /\ pollErrors = {}
    /\ unhandled = FALSE
    /\ ServicesIdle

Init == InitFor(OrderIds)

\* ------------------------------------------------------------ lifecycle

\* A start() without the already-running guard: every call sets a new interval.
StartAgain ==
    /\ LET id == CHOOSE i \in 1..(Cardinality(timers) + 1) : \A t \in timers : t.id # i
       IN /\ tickTimer' = id
          /\ timers' = timers \cup {[id |-> id, fireAt |-> now + TICK_INTERVAL]}
    /\ UNCHANGED <<now, heap, tracked, activePollCount, polls, db, provider, calls,
                   pollErrors, unhandled>>
    /\ UNCHANGED services

\* start(): no-op when the timer is set, else setInterval(tick, TICK_INTERVAL).
Start ==
    /\ IF tickTimer # 0
       THEN UNCHANGED <<tickTimer, timers>>
       ELSE LET id == CHOOSE i \in 1..(Cardinality(timers) + 1) :
                          \A t \in timers : t.id # i
            IN /\ tickTimer' = id
               /\ timers' = timers \cup {[id |-> id, fireAt |-> now + TICK_INTERVAL]}
    /\ UNCHANGED <<now, heap, tracked, activePollCount, polls, db, provider, calls,
                   pollErrors, unhandled>>
    /\ UNCHANGED services

\* A stop() that forgets the handle without clearInterval.
StopLeavesTimer ==
    /\ tickTimer' = 0
    /\ UNCHANGED <<now, timers, heap, tracked, activePollCount, polls, db, provider, calls,
                   pollErrors, unhandled>>
    /\ UNCHANGED services

\* A hard stop(): the polls in flight are abandoned.
StopAborts ==
    /\ IF tickTimer # 0
       THEN /\ timers' = {t \in timers : t.id # tickTimer}
            /\ tickTimer' = 0
       ELSE UNCHANGED <<tickTimer, timers>>
    /\ polls' = EmptyBag
    /\ activePollCount' = 0
    /\ UNCHANGED <<now, heap, tracked, db, provider, calls, pollErrors, unhandled>>
    /\ UNCHANGED services

\* stop(): clearInterval and forget the handle, when there is one.
Stop ==
    /\ IF tickTimer # 0
       THEN /\ timers' = {t \in timers : t.id # tickTimer}
            /\ tickTimer' = 0
       ELSE UNCHANGED <<tickTimer, timers>>
    /\ UNCHANGED <<now, heap, tracked, activePollCount, polls, db, provider, calls,
                   pollErrors, unhandled>>
    /\ UNCHANGED services

\* ------------------------------------------------------------ registry

\* The entry trackOrder creates (createdAt ?? new Date()).
NewTrackedOrder(orderId, telegramId, createdAt) ==
    [orderId |-> orderId, telegramId |-> telegramId,
     createdAt |-> IF createdAt = NoDate THEN now ELSE createdAt,
     lastChecked |-> 0, lastStatus |-> "pending"]

\* A trackOrder without the has() guard: Map.set replaces the entry of a tracked id.
trackOrderHeapOverwrites(h, t, orderId, telegramId, createdAt) ==
    IF HasIn(h, t, orderId)
    THEN [h EXCEPT ![GetIn(h, t, orderId)] = NewTrackedOrder(orderId, telegramId, createdAt)]
    ELSE Append(h, NewTrackedOrder(orderId, telegramId, createdAt))

\* trackOrder(orderId, telegramId, createdAt?) on a registry (heap h, map t):
\* no-op when the id is present, else a new object appended to the Map.
trackOrderHeap(h, t, orderId, telegramId, createdAt) ==
    IF HasIn(h, t, orderId) THEN h
    ELSE Append(h, NewTrackedOrder(orderId, telegramId, createdAt))

trackOrderMap(h, t, orderId) ==
    IF HasIn(h, t, orderId) THEN t ELSE Append(t, Len(h) + 1)

\* untrackOrder(orderId) on the Map: Map.delete by key.
untrackOrderMap(h, t, orderId) == SelectSeq(t, LAMBDA r : h[r].orderId # orderId)

\* The public trackOrder call.
TrackOrder(orderId, telegramId, createdAt) ==
    /\ Has(orderId) \/ Len(heap) < MaxObjs
    /\ heap' = trackOrderHeap(heap, tracked, orderId, telegramId, createdAt)
    /\ tracked' = trackOrderMap(heap, tracked, orderId)
    /\ UNCHANGED <<now, tickTimer, timers, activePollCount, polls, db, provider, calls,
                   pollErrors, unhandled>>
    /\ UNCHANGED services

\* The public untrackOrder call.
UntrackOrder(orderId) ==
    /\ tracked' = untrackOrderMap(heap, tracked, orderId)
    /\ UNCHANGED <<now, tickTimer, timers, heap, activePollCount, polls, db, provider,
                   calls, pollErrors, unhandled>>
    /\ UNCHANGED services

\* ------------------------------------------------------------ persistence

\* db.createOrderEntry: inserts a row with the default status 'pending' and
\* created_at defaultNow().
createOrderEntry(d, orderId, telegramId) ==
    [d EXCEPT ![orderId] = [status |-> "pending", telegramId |-> telegramId, createdAt |-> now]]

\* db.updateOrderStatus: UPDATE orders SET status WHERE sideshift_order_id = id.
updateOrderStatus(d, orderId, newStatus) ==
    IF d[orderId] = NoRow THEN d ELSE [d EXCEPT ![orderId].status = newStatus]

\* bot.ts place_order: a new SideShift order is recorded and handed to the monitor.
PlaceOrder(orderId, telegramId) ==
    /\ db[orderId] = NoRow
    /\ Len(heap) < MaxObjs
    /\ db' = createOrderEntry(db, orderId, telegramId)
    /\ heap' = trackOrderHeap(heap, tracked, orderId, telegramId, NoDate)
    /\ tracked' = trackOrderMap(heap, tracked, orderId)
    /\ UNCHANGED <<now, tickTimer, timers, activePollCount, polls, provider, calls,
                   pollErrors, unhandled>>
    /\ UNCHANGED services

\* database.ts: terminal statuses that no longer need monitoring.
DB_TERMINAL_STATUSES == {"settled", "expired", "refunded", "failed"}

\* A getPendingOrders without the notInArray filter: every row.
PendingIdsAll == {o \in DOMAIN db : db[o] # NoRow}

\* db.getPendingOrders: the ids of the rows whose status is not terminal.
PendingIds == {o \in DOMAIN db : db[o] # NoRow /\ db[o].status \notin DB_TERMINAL_STATUSES}

\* The orders a query may return: every enumeration of a set (SQL gives no order).
Enumerations(S) ==
    {s \in [1..Cardinality(S) -> S] : \A i, j \in 1..Cardinality(S) : s[i] = s[j] => i = j}

\* The loop of loadPendingOrders over the rows, on (heap, map).
RECURSIVE LoadLoop(_, _, _)
LoadLoop(h, t, rows) ==
    IF rows = <<>> THEN <<h, t>>
    ELSE LET o  == Head(rows)
             h1 == trackOrderHeap(h, t, o, db[o].telegramId, db[o].createdAt)
             t1 == trackOrderMap(h, t, o)
             \* Preserve the DB status
             h2 == [h1 EXCEPT ![GetIn(h1, t1, o)].lastStatus = db[o].status]
         IN LoadLoop(h2, t1, Tail(rows))

\* loadPendingOrders(), getPendingOrders resolving.
LoadPendingOrders ==
    /\ Len(heap) + Cardinality({o \in PendingIds : ~Has(o)}) <= MaxObjs
    /\ \E rows \in Enumerations(PendingIds) :
          LET r == LoadLoop(heap, tracked, rows)
          IN /\ heap' = r[1]
             /\ tracked' = r[2]
    /\ UNCHANGED <<now, tickTimer, timers, activePollCount, polls, db, provider, calls,
                   pollErrors, unhandled>>
    /\ UNCHANGED services

\* The entry of the error log for a getPendingOrders failure.
LoadError == "getPendingOrders"

\* A loadPendingOrders() that empties the registry when getPendingOrders rejects.
LoadPendingOrdersFailClears ==
    /\ pollErrors' = pollErrors \cup {LoadError}
    /\ tracked' = <<>>
    /\ UNCHANGED <<now, tickTimer, timers, heap, activePollCount, polls, db,
                   provider, calls, unhandled>>
    /\ UNCHANGED services

\* loadPendingOrders(), getPendingOrders rejecting: caught and logged.
LoadPendingOrdersFail ==
    /\ pollErrors' = pollErrors \cup {LoadError}
    /\ UNCHANGED <<now, tickTimer, timers, heap, tracked, activePollCount, polls, db,
                   provider, calls, unhandled>>
    /\ UNCHANGED services

\* ------------------------------------------------------------ environment

\* The provider moves an order to a later status.
ProviderAdvance(orderId, status) ==
    /\ status \in ProviderNext(provider[orderId])
    /\ provider' = [provider EXCEPT ![orderId] = status]
    /\ UNCHANGED <<now, tickTimer, timers, heap, tracked, activePollCount, polls, db,
                   calls, pollErrors, unhandled>>
    /\ UNCHANGED services

\* Time passes, unless an interval timer is due (the event loop fires it first).
AdvanceClock ==
    /\ now - StartTime < MaxClockSteps * ClockStep
    /\ \A t \in timers : now < t.fireAt
    /\ now' = now + ClockStep
    /\ UNCHANGED <<tickTimer, timers, heap, tracked, activePollCount, polls, db, provider,
                   calls, pollErrors, unhandled>>
    /\ UNCHANGED services

\* ------------------------------------------------------------ tick

\* The due test of tick() for one tracked order at time t.
IsDue(order, t) ==
    LET ageMs    == t - order.createdAt
        interval == getBackoffInterval(ageMs)
        elapsed  == t - order.lastChecked
    IN elapsed >= interval

\* A toPoll without the due test: every tracked order, in Map iteration order.
ToPollAll == tracked

\* toPoll: the due orders, in Map iteration order.
ToPoll == SelectSeq(tracked, LAMBDA r : IsDue(heap[r], now))

\* A batch cut to MAX_CONCURRENT without counting the polls already in flight.
BatchNoCap ==
    IF Len(ToPoll) = 0 THEN <<>>
    ELSE Slice(ToPoll, 0, MAX_CONCURRENT)

\* batch: toPoll cut to the concurrency budget.
Batch ==
    IF Len(ToPoll) = 0 THEN <<>>
    ELSE Slice(ToPoll, 0, MAX_CONCURRENT - activePollCount)

\* A pollOrder invocation suspended at `await getOrderStatus`.
FetchPoll(r) == [ref |-> r, pc |-> "fetch", oldStatus |-> "", newStatus |-> ""]

\* A pollOrder invocation suspended at `await updateOrderStatus`.
WritePoll(r, oldStatus, newStatus) ==
    [ref |-> r, pc |-> "write", oldStatus |-> oldStatus, newStatus |-> newStatus]

\* An interval timer fires: tick() runs up to its await, each pollOrder of the
\* batch up to its first await.
Tick(t) ==
    /\ t \in timers
    /\ now >= t.fireAt
    /\ timers' = (timers \ {t}) \cup {[t EXCEPT !.fireAt = @ + TICK_INTERVAL]}
    /\ polls' = polls (+) SetToBag({FetchPoll(Batch[i]) : i \in DOMAIN Batch})
    /\ activePollCount' = activePollCount + Len(Batch)
    /\ UNCHANGED <<now, tickTimer, heap, tracked, db, provider, calls, pollErrors, unhandled>>
    /\ UNCHANGED services

\* ------------------------------------------------------------ pollOrder

UpdateCall(status, ok) ==
    [op |-> "update", status |-> status, ok |-> ok]
NotifyCall(order, oldStatus, newStatus, details, threw) ==
    [op |-> "notify", telegramId |-> order.telegramId, orderId |-> order.orderId,
     oldStatus |-> oldStatus, newStatus |-> newStatus, details |-> details, threw |-> threw]

IsNotify(c) == c.op = "notify"
IsFailedUpdate(c) == c.op = "update" /\ ~c.ok

\* Number of onStatusChange calls, and of rejected updateOrderStatus calls, in
\* the call log of an order.
NotifyCount(log) == Cardinality({i \in DOMAIN log : IsNotify(log[i])})
FailedUpdateCount(log) == Cardinality({i \in DOMAIN log : IsFailedUpdate(log[i])})

\* The SideShiftOrderStatus record the provider returns for an order.
StatusRecord(orderId) == [id |-> orderId, status |-> provider[orderId]]

\* pollOrder's promise: its try/catch/finally lets no error out.
pollOrderSettles(error) == "fulfilled"

\* tick's promise: Promise.allSettled never rejects.
tickSettles(pollResult) == "fulfilled"

Escapes(error) == tickSettles(pollOrderSettles(error)) = "rejected"

\* A pollOrder without the newStatus !== oldStatus test: every fetched status is
\* written and notified.
FetchOkAlwaysWrites(p) ==
    /\ BagIn(p, polls) /\ p.pc = "fetch"
    /\ LET order     == heap[p.ref]
           newStatus == StatusRecord(order.orderId).status
           oldStatus == order.lastStatus
       IN /\ heap' = [heap EXCEPT ![p.ref].lastChecked = now,
                                  ![p.ref].lastStatus = newStatus]
          /\ polls' = (polls (-) SetToBag({p})) (+)
                      SetToBag({WritePoll(p.ref, oldStatus, newStatus)})
    /\ UNCHANGED <<now, tickTimer, timers, tracked, activePollCount, db, provider, calls,
                   pollErrors, unhandled>>
    /\ UNCHANGED services

\* getOrderStatus resolves: lastChecked is stamped, the statuses are compared and,
\* on a change, lastStatus is set and updateOrderStatus is awaited.
FetchOk(p) ==
    /\ BagIn(p, polls) /\ p.pc = "fetch"
    /\ LET order     == heap[p.ref]
           status    == StatusRecord(order.orderId)
           newStatus == status.status
           oldStatus == order.lastStatus
       IN IF newStatus # oldStatus
          THEN /\ heap' = [heap EXCEPT ![p.ref].lastChecked = now,
                                       ![p.ref].lastStatus = newStatus]
               /\ polls' = (polls (-) SetToBag({p})) (+)
                           SetToBag({WritePoll(p.ref, oldStatus, newStatus)})
               /\ UNCHANGED activePollCount
          ELSE /\ heap' = [heap EXCEPT ![p.ref].lastChecked = now]
               /\ polls' = polls (-) SetToBag({p})
               /\ activePollCount' = activePollCount - 1
    /\ unhandled' = (unhandled \/ Escapes(FALSE))
    /\ UNCHANGED <<now, tickTimer, timers, tracked, db, provider, calls, pollErrors>>
    /\ UNCHANGED services

\* A catch block that gives up on the order: the fetch error untracks it.
FetchFailUntracks(p) ==
    /\ BagIn(p, polls) /\ p.pc = "fetch"
    /\ polls' = polls (-) SetToBag({p})
    /\ activePollCount' = activePollCount - 1
    /\ pollErrors' = pollErrors \cup {heap[p.ref].orderId}
    /\ tracked' = untrackOrderMap(heap, tracked, heap[p.ref].orderId)
    /\ unhandled' = FALSE
    /\ UNCHANGED <<now, tickTimer, timers, heap, db, provider, calls>>
    /\ UNCHANGED services

\* A poll that stamps lastChecked before the fetch, so also when the fetch fails.
FetchFailStamps(p) ==
    /\ BagIn(p, polls) /\ p.pc = "fetch"
    /\ polls' = polls (-) SetToBag({p})
    /\ activePollCount' = activePollCount - 1
    /\ pollErrors' = pollErrors \cup {heap[p.ref].orderId}
    /\ heap' = [heap EXCEPT ![p.ref].lastChecked = now]
    /\ unhandled' = FALSE
    /\ UNCHANGED <<now, tickTimer, timers, tracked, db, provider, calls>>
    /\ UNCHANGED services

\* A batch awaited with Promise.all semantics: the first rejection abandons
\* the polls still in flight.
FetchFailAbortsBatch(p) ==
    /\ BagIn(p, polls) /\ p.pc = "fetch"
    /\ polls' = EmptyBag
    /\ activePollCount' = 0
    /\ pollErrors' = pollErrors \cup {heap[p.ref].orderId}
    /\ unhandled' = FALSE
    /\ UNCHANGED <<now, tickTimer, timers, heap, tracked, db, provider, calls>>
    /\ UNCHANGED services

\* getOrderStatus rejects: caught and logged, the order is left as it is.
FetchFail(p) ==
    /\ BagIn(p, polls) /\ p.pc = "fetch"
    /\ polls' = polls (-) SetToBag({p})
    /\ activePollCount' = activePollCount - 1
    /\ pollErrors' = pollErrors \cup {heap[p.ref].orderId}
    /\ unhandled' = (unhandled \/ Escapes(TRUE))
    /\ UNCHANGED <<now, tickTimer, timers, heap, tracked, db, provider, calls>>
    /\ UNCHANGED services

\* A pollOrder that notifies before it writes.
WriteOkNotifiesFirst(p, threw) ==
    /\ BagIn(p, polls) /\ p.pc = "write"
    /\ LET order   == heap[p.ref]
           o       == order.orderId
           details == [id |-> o, status |-> p.newStatus]
       IN /\ db' = updateOrderStatus(db, o, p.newStatus)
          /\ calls' = [calls EXCEPT ![o] = @ \o
                          <<NotifyCall(order, p.oldStatus, p.newStatus, details, threw),
                            UpdateCall(p.newStatus, TRUE)>>]
          /\ tracked' = IF ~threw /\ IsTerminal(p.newStatus)
                        THEN untrackOrderMap(heap, tracked, o)
                        ELSE tracked
    /\ polls' = polls (-) SetToBag({p})
    /\ activePollCount' = activePollCount - 1
    /\ unhandled' = FALSE
    /\ UNCHANGED <<now, tickTimer, timers, heap, provider, pollErrors>>
    /\ UNCHANGED services

\* updateOrderStatus resolves, onStatusChange is called; when it returns, a
\* terminal order is untracked; when it throws, the catch block is entered.
WriteOk(p, threw) ==
    /\ BagIn(p, polls) /\ p.pc = "write"
    /\ LET order   == heap[p.ref]
           o       == order.orderId
           details == [id |-> o, status |-> p.newStatus]
       IN /\ db' = updateOrderStatus(db, o, p.newStatus)
          /\ calls' = [calls EXCEPT ![o] = @ \o
                          <<UpdateCall(p.newStatus, TRUE),
                            NotifyCall(order, p.oldStatus, p.newStatus, details, threw)>>]
          /\ tracked' = IF ~threw /\ IsTerminal(p.newStatus)
                        THEN untrackOrderMap(heap, tracked, o)
                        ELSE tracked
    /\ polls' = polls (-) SetToBag({p})
    /\ activePollCount' = activePollCount - 1
    /\ unhandled' = (unhandled \/ Escapes(threw))
    /\ UNCHANGED <<now, tickTimer, timers, heap, provider, pollErrors>>
    /\ UNCHANGED services

\* A catch block that restores the previous lastStatus when the write fails.
WriteFailRollsBack(p) ==
    /\ BagIn(p, polls) /\ p.pc = "write"
    /\ calls' = [calls EXCEPT ![heap[p.ref].orderId] = Append(@, UpdateCall(p.newStatus, FALSE))]
    /\ heap' = [heap EXCEPT ![p.ref].lastStatus = p.oldStatus]
    /\ polls' = polls (-) SetToBag({p})
    /\ activePollCount' = activePollCount - 1
    /\ unhandled' = FALSE
    /\ UNCHANGED <<now, tickTimer, timers, tracked, db, provider, pollErrors>>
    /\ UNCHANGED services

\* A pollOrder without the finally block: a rejected write keeps its slot.
WriteFailKeepsSlot(p) ==
    /\ BagIn(p, polls) /\ p.pc = "write"
    /\ calls' = [calls EXCEPT ![heap[p.ref].orderId] = Append(@, UpdateCall(p.newStatus, FALSE))]
    /\ polls' = polls (-) SetToBag({p})
    /\ UNCHANGED <<now, tickTimer, timers, heap, tracked, activePollCount, db, provider,
                   pollErrors, unhandled>>
    /\ UNCHANGED services

\* updateOrderStatus rejects: caught and logged; nothing after the await runs.
WriteFail(p) ==
    /\ BagIn(p, polls) /\ p.pc = "write"
    /\ calls' = [calls EXCEPT ![heap[p.ref].orderId] = Append(@, UpdateCall(p.newStatus, FALSE))]
    /\ polls' = polls (-) SetToBag({p})
    /\ activePollCount' = activePollCount - 1
    /\ unhandled' = (unhandled \/ Escapes(TRUE))
    /\ UNCHANGED <<now, tickTimer, timers, heap, tracked, db, provider, pollErrors>>
    /\ UNCHANGED services

\* ------------------------------------------------------------ specification

\* The running monitor: orders are placed, the provider moves them, the timer
\* ticks, and every call of a poll may succeed or fail.
Next ==
    \/ Start
    \/ \E o \in OrderIds : PlaceOrder(o, OwnerOf(o))
    \/ \E o \in OrderIds : \E s \in ProviderNext(provider[o]) : ProviderAdvance(o, s)
    \/ AdvanceClock
    \/ \E t \in timers : Tick(t)
    \/ \E p \in PollSet : FetchOk(p)
    \/ \E p \in PollSet : FetchFail(p)
    \/ \E p \in PollSet, threw \in BOOLEAN : WriteOk(p, threw)
    \/ \E p \in PollSet : WriteFail(p)

Spec == Init /\ [][Next]_vars


\* ------------------------------------------------------------ a full registry

\* More tracked orders than the concurrency budget.
CapIds == {"c1", "c2", "c3", "c4", "c5", "c6"}
CapOrder == <<"c1", "c2", "c3", "c4", "c5", "c6">>

\* trackOrder applied to a sequence of order ids, on (heap, map).
RECURSIVE TrackAll(_, _, _, _)
TrackAll(h, t, ids, createdAt) ==
    IF ids = <<>> THEN <<h, t>>
    ELSE TrackAll(trackOrderHeap(h, t, Head(ids), OwnerOf(Head(ids)), createdAt),
                  trackOrderMap(h, t, Head(ids)), Tail(ids), createdAt)

\* The orders whose getOrderStatus calls fail in this scenario.
CapFailing == {"c2", "c6"}

\* Six orders were tracked and the monitor started; the provider has already
\* moved the first order on.
InitCap ==
    /\ now = StartTime
    /\ tickTimer = 1
    /\ timers = {[id |-> 1, fireAt |-> StartTime + TICK_INTERVAL]}
    /\ heap = TrackAll(<<>>, <<>>, CapOrder, NoDate)[1]
    /\ tracked = TrackAll(<<>>, <<>>, CapOrder, NoDate)[2]
    /\ activePollCount = 0
    /\ polls = EmptyBag
    /\ db = [o \in CapIds |-> [status |-> "pending", telegramId |-> OwnerOf(o),
                                createdAt |-> StartTime]]
    /\ provider = [o \in CapIds |-> IF o = "c1" THEN "settled" ELSE "pending"]
    /\ calls = [o \in CapIds |-> <<>>]
    /\ pollErrors = {}
    /\ unhandled = FALSE
    /\ ServicesIdle

NextCap ==
    \/ AdvanceClock
    \/ \E t \in timers : Tick(t)
    \/ \E p \in PollSet : FetchOk(p)
    \/ \E p \in PollSet : heap[p.ref].orderId \in CapFailing /\ FetchFail(p)
    \/ \E p \in PollSet, threw \in BOOLEAN : WriteOk(p, threw)
    \/ \E p \in PollSet : WriteFail(p)

SpecCap == InitCap /\ [][NextCap]_vars

\* ------------------------------------------------------------ a long-running monitor

\* A timestamp one clock step further in the past. The monitor reads the clock
\* only in now - createdAt and now - lastChecked, the first compared with at most
\* 2 h and the second with at most 15 min, so with now = StartTime = 2 h a
\* timestamp of 0 stands for "2 h ago or earlier".
Earlier(ts) == IF ts > ClockStep THEN ts - ClockStep ELSE 0

\* Time passes without end: the present stays the origin and every timestamp
\* moves one clock step into the past. No interval timer is due.
TimePasses ==
    /\ \A t \in timers : now < t.fireAt
    /\ heap' = [r \in DOMAIN heap |->
                   [heap[r] EXCEPT !.createdAt = Earlier(@), !.lastChecked = Earlier(@)]]
    /\ timers' = {[t EXCEPT !.fireAt = @ - ClockStep] : t \in timers}
    /\ UNCHANGED <<now, tickTimer, tracked, activePollCount, polls, db, provider, calls,
                   pollErrors, unhandled>>
    /\ UNCHANGED services

\* Six old orders: five the provider cannot answer for, then one more.
StarveOrder == <<"f1", "f2", "f3", "f4", "f5", "s1">>
StarveIds == {StarveOrder[i] : i \in DOMAIN StarveOrder}
StarveRefs == DOMAIN StarveOrder
Unreachable == {"f1", "f2", "f3", "f4", "f5"}

\* The orders were loaded with a creation date two hours back and the monitor
\* started; the unreachable orders have failed polls behind them.
InitStarve ==
    /\ now = StartTime
    /\ tickTimer = 1
    /\ timers = {[id |-> 1, fireAt |-> StartTime + TICK_INTERVAL]}
    /\ heap = TrackAll(<<>>, <<>>, StarveOrder, 0)[1]
    /\ tracked = TrackAll(<<>>, <<>>, StarveOrder, 0)[2]
    /\ activePollCount = 0
    /\ polls = EmptyBag
    /\ db = [o \in StarveIds |-> [status |-> "pending", telegramId |-> OwnerOf(o),
                                   createdAt |-> 0]]
    /\ provider = [o \in StarveIds |-> "pending"]
    /\ calls = [o \in StarveIds |-> <<>>]
    /\ pollErrors = Unreachable
    /\ unhandled = FALSE
    /\ ServicesIdle

\* The getOrderStatus call of a poll on object r fails: the order is unreachable.
FetchRejects(r) ==
    \E p \in PollSet :
        /\ p.ref = r
        /\ heap[r].orderId \in Unreachable
        /\ FetchFail(p)

NextStarve ==
    \/ TimePasses
    \/ \E t \in timers : Tick(t)
    \/ \E r \in StarveRefs : FetchRejects(r)

\* The timer keeps firing and every getOrderStatus call made eventually fails.
FairStarve ==
    /\ WF_vars(TimePasses)
    /\ WF_vars(\E t \in timers : Tick(t))
    /\ \A r \in StarveRefs : WF_vars(FetchRejects(r))

SpecStarve == InitStarve /\ [][NextStarve]_vars /\ FairStarve

\* One old order, loaded from its table row, in a running monitor.
RecoverIds == {"o1"}

InitRecover ==
    /\ now = StartTime
    /\ tickTimer = 1
    /\ timers = {[id |-> 1, fireAt |-> StartTime + TICK_INTERVAL]}
    /\ heap = TrackAll(<<>>, <<>>, <<"o1">>, 0)[1]
    /\ tracked = TrackAll(<<>>, <<>>, <<"o1">>, 0)[2]
    /\ activePollCount = 0
    /\ polls = EmptyBag
    /\ db = [o \in RecoverIds |-> [status |-> "pending", telegramId |-> OwnerOf(o),
                                    createdAt |-> 0]]
    /\ provider = [o \in RecoverIds |-> "pending"]
    /\ calls = [o \in RecoverIds |-> <<>>]
    /\ pollErrors = {}
    /\ unhandled = FALSE
    /\ ServicesIdle

\* The storage outage: updateOrderStatus fails once and succeeds ever after.
WriteFailsOnce(p) ==
    /\ \A o \in RecoverIds : FailedUpdateCount(calls[o]) = 0
    /\ WriteFail(p)

\* The suspended pollOrder invocations this scenario can hold.
RecoverPolls ==
    {FetchPoll(1)} \cup
    {WritePoll(1, a, b) : a \in NON_TERMINAL_STATUSES,
                          b \in NON_TERMINAL_STATUSES \cup TERMINAL_STATUSES}

\* The call a suspended poll awaits returns; onStatusChange returns too.
PollProceeds(p) == FetchOk(p) \/ WriteOk(p, FALSE)

NextRecover ==
    \/ \E o \in RecoverIds : \E s \in ProviderNext(provider[o]) : ProviderAdvance(o, s)
    \/ TimePasses
    \/ \E t \in timers : Tick(t)
    \/ \E p \in PollSet : PollProceeds(p)
    \/ \E p \in PollSet : WriteFailsOnce(p)

\* The timer keeps firing, every awaited call returns, and after the one failure
\* every updateOrderStatus call succeeds.
FairRecover ==
    /\ WF_vars(TimePasses)
    /\ WF_vars(\E t \in timers : Tick(t))
    /\ \A p \in RecoverPolls : WF_vars(PollProceeds(p))

SpecRecover == InitRecover /\ [][NextRecover]_vars /\ FairRecover

\* ------------------------------------------------------------ order intake

\* dca-scheduler executeSchedule (and the portfolio service): the order row is
\* inserted; the monitor is not told.
ExecuteSchedule(orderId, telegramId) ==
    /\ db[orderId] = NoRow
    /\ db' = createOrderEntry(db, orderId, telegramId)
    /\ UNCHANGED <<now, tickTimer, timers, heap, tracked, activePollCount, polls, provider,
                   calls, pollErrors, unhandled>>
    /\ UNCHANGED services

\* One old order loaded at startup, and one order a schedule will create.
IntakeIds == {"o1", "d1"}

InitIntake ==
    /\ now = StartTime
    /\ tickTimer = 1
    /\ timers = {[id |-> 1, fireAt |-> StartTime + TICK_INTERVAL]}
    /\ heap = TrackAll(<<>>, <<>>, <<"o1">>, 0)[1]
    /\ tracked = TrackAll(<<>>, <<>>, <<"o1">>, 0)[2]
    /\ activePollCount = 0
    /\ polls = EmptyBag
    /\ db = [o \in IntakeIds |->
                IF o = "o1" THEN [status |-> "pending", telegramId |-> OwnerOf(o), createdAt |-> 0]
                ELSE NoRow]
    /\ provider = [o \in IntakeIds |-> "pending"]
    /\ calls = [o \in IntakeIds |-> <<>>]
    /\ pollErrors = {}
    /\ unhandled = FALSE
    /\ ServicesIdle

NextIntake ==
    \/ ExecuteSchedule("d1", OwnerOf("d1"))
    \/ TimePasses
    \/ \E t \in timers : Tick(t)
    \/ \E p \in PollSet : FetchOk(p)

\* The timer keeps firing and every getOrderStatus call returns.
FairIntake ==
    /\ WF_vars(TimePasses)
    /\ WF_vars(\E t \in timers : Tick(t))
    /\ WF_vars(FetchOk(FetchPoll(1)))

SpecIntake == InitIntake /\ [][NextIntake]_vars /\ FairIntake

\* ------------------------------------------------------------ lifecycle scenario

\* Two orders are in the orders table when the process starts: one the previous
\* run left at 'processing', one still 'pending'.
LifeIds == {"l1", "l2"}

InitLife ==
    /\ now = StartTime
    /\ tickTimer = 0
    /\ timers = {}
    /\ heap = <<>>
    /\ tracked = <<>>
    /\ activePollCount = 0
    /\ polls = EmptyBag
    /\ db = [o \in LifeIds |->
                [status |-> IF o = "l1" THEN "processing" ELSE "pending",
                 telegramId |-> OwnerOf(o), createdAt |-> StartTime]]
    /\ provider \in [LifeIds -> {"pending", "processing", "settled"}]
    /\ provider["l1"] # "pending"
    /\ provider["l2"] # "processing"
    /\ calls = [o \in LifeIds |-> <<>>]
    /\ pollErrors = {}
    /\ unhandled = FALSE
    /\ ServicesIdle

\* Startup, shutdown and restart around the running monitor.
NextLife ==
    \/ LoadPendingOrders
    \/ LoadPendingOrdersFail
    \/ Start
    \/ Stop
    \/ AdvanceClock
    \/ \E t \in timers : Tick(t)
    \/ \E p \in PollSet : FetchOk(p)
    \/ \E p \in PollSet : FetchFail(p)
    \/ \E p \in PollSet, threw \in BOOLEAN : WriteOk(p, threw)
    \/ \E p \in PollSet : WriteFail(p)

SpecLife == InitLife /\ [][NextLife]_vars

\* ------------------------------------------------------------ registry calls
\* The callers of trackOrder / untrackOrder (bot handlers, tests) acting on a
\* running monitor whose orders are still moving at the provider.

\* The telegram ids and createdAt arguments a caller passes (orders two hours old).
TelegramIds == {100, 200}
CreatedAts == {0}

\* The monitor is running on an empty registry, and SideShift already reports
\* every order as processing.
InitRegistry ==
    /\ now = StartTime
    /\ tickTimer = 1
    /\ timers = {[id |-> 1, fireAt |-> StartTime + TICK_INTERVAL]}
    /\ heap = <<>>
    /\ tracked = <<>>
    /\ activePollCount = 0
    /\ polls = EmptyBag
    /\ db = [o \in OrderIds |-> NoRow]
    /\ provider = [o \in OrderIds |-> "processing"]
    /\ calls = [o \in OrderIds |-> <<>>]
    /\ pollErrors = {}
    /\ unhandled = FALSE
    /\ ServicesIdle

NextRegistry ==
    \/ \E o \in OrderIds, tel \in TelegramIds, c \in CreatedAts : TrackOrder(o, tel, c)
    \/ \E o \in OrderIds : UntrackOrder(o)
    \/ AdvanceClock
    \/ \E t \in timers : Tick(t)
    \/ \E p \in PollSet : FetchOk(p)
    \/ \E p \in PollSet : WriteOk(p, FALSE)

SpecRegistry == InitRegistry /\ [][NextRegistry]_vars

\* ------------------------------------------------------------ backoff
\* One tracked order of a given age, last polled a given time ago, when the
\* interval timer fires.

\* The time of the tick.
BackoffNow == 3 * 3600000

\* Order ages around the three thresholds of getBackoffInterval.
BackoffAges ==
    {299999, 300000, 300001, 1799999, 1800000, 1800001, 7199999, 7200000, 7200001, BackoffNow}

\* Times since the last poll around the four intervals.
BackoffElapsed == {14999, 15000, 59999, 60000, 299999, 300000, 899999, 900000}

InitBackoff ==
    /\ now = BackoffNow
    /\ tickTimer = 1
    /\ timers = {[id |-> 1, fireAt |-> BackoffNow]}
    /\ \E a \in BackoffAges, e \in BackoffElapsed :
          /\ e <= a
          /\ heap = <<[orderId |-> "o1", telegramId |-> OwnerOf("o1"),
                       createdAt |-> BackoffNow - a, lastChecked |-> BackoffNow - e,
                       lastStatus |-> "pending"]>>
    /\ tracked = <<1>>
    /\ activePollCount = 0
    /\ polls = EmptyBag
    /\ db = [o \in OrderIds |-> NoRow]
    /\ provider = [o \in OrderIds |-> "pending"]
    /\ calls = [o \in OrderIds |-> <<>>]
    /\ pollErrors = {}
    /\ unhandled = FALSE
    /\ ServicesIdle

NextBackoff ==
    \/ \E t \in timers : Tick(t)
    \/ \E p \in PollSet : FetchOk(p)

SpecBackoff == InitBackoff /\ [][NextBackoff]_vars

\* ------------------------------------------------------------ stored statuses
\* Startup over an orders table whose rows are in any status, while SideShift
\* reports any one status for the orders.

InitStored ==
    /\ now = StartTime
    /\ tickTimer = 1
    /\ timers = {[id |-> 1, fireAt |-> StartTime + TICK_INTERVAL]}
    /\ heap = <<>>
    /\ tracked = <<>>
    /\ activePollCount = 0
    /\ polls = EmptyBag
    /\ \E st \in [OrderIds -> TERMINAL_STATUSES \cup NON_TERMINAL_STATUSES] :
          db = [o \in OrderIds |->
                   [status |-> st[o], telegramId |-> OwnerOf(o), createdAt |-> StartTime]]
    /\ \E s \in TERMINAL_STATUSES \cup NON_TERMINAL_STATUSES : provider = [o \in OrderIds |-> s]
    /\ calls = [o \in OrderIds |-> <<>>]
    /\ pollErrors = {}
    /\ unhandled = FALSE
    /\ ServicesIdle

NextStored ==
    \/ LoadPendingOrders
    \/ AdvanceClock
    \/ \E t \in timers : Tick(t)
    \/ \E p \in PollSet : FetchOk(p)
    \/ \E p \in PollSet : WriteOk(p, FALSE)

SpecStored == InitStored /\ [][NextStored]_vars

\* ------------------------------------------------------------ portfolio service
\* executePortfolioStrategy(userId, parsedCommand): one call, split over the
\* allocations of parsedCommand.portfolio.

\* The longest portfolio.
MaxAllocations == 2

\* parsedCommand.amount
PortfolioAmount == 100

\* The allocations a portfolio is made of.
Allocations == [toAsset : {"BTC", "ETH"}, percentage : {0, 50, 100}]

\* The parsedCommand values: without a portfolio field, or with a portfolio of
\* up to MaxAllocations allocations.
ParsedCommands ==
    [hasPortfolio : {FALSE}, portfolio : {<<>>}]
        \cup [hasPortfolio : {TRUE},
              portfolio : UNION {[1..n -> Allocations] : n \in 0..MaxAllocations}]

\* The order createOrder returns for the k-th allocation.
PortfolioOrderId(k) == "p" \o ToString(k)
PortfolioOrderIds == {PortfolioOrderId(k) : k \in 1..(MaxAllocations + 1)}

\* How the awaited calls of one iteration end: all resolve, createQuote rejects,
\* the quote carries an error, createOrder rejects, the order has no id,
\* createOrderEntry rejects, addWatchedOrder rejects, or something that is
\* not an Error is thrown.
Outcomes ==
    {"ok", "createQuote rejects", "quote.error", "createOrder rejects", "no order.id",
     "createOrderEntry rejects", "addWatchedOrder rejects", "non-Error thrown"}

\* error instanceof Error ? error.message : 'Unknown error'
Reason(outcome) ==
    CASE outcome = "createQuote rejects" -> "Liquidity Error"
      [] outcome = "quote.error" -> "quote.error.message"
      [] outcome = "createOrder rejects" -> "Order Error"
      [] outcome = "no order.id" -> "Failed to create order ID"
      [] outcome = "createOrderEntry rejects" -> "Insert Error"
      [] outcome = "addWatchedOrder rejects" -> "Watch Error"
      [] outcome = "non-Error thrown" -> "Unknown error"

\* swapAmount of the k-th allocation: its share, or the remainder for the last.
SwapAmount(run, k) ==
    IF k = Len(run.portfolio) THEN run.remainingAmount
    ELSE (PortfolioAmount * run.portfolio[k].percentage) \div 100

\* remainingAmount after the k-th allocation.
RemainingAfter(run, k) ==
    IF k = Len(run.portfolio) THEN run.remainingAmount
    ELSE run.remainingAmount - SwapAmount(run, k)

\* The call: the validation of parsedCommand.portfolio.
ExecutePortfolioStrategy(parsedCommand) ==
    /\ portfolioRun.pc = "idle"
    /\ portfolioRun' =
          IF ~parsedCommand.hasPortfolio \/ Len(parsedCommand.portfolio) = 0
          THEN [portfolioRun EXCEPT !.pc = "rejected",
                                    !.error = "No portfolio allocation found"]
          ELSE [portfolioRun EXCEPT !.pc = "running",
                                    !.portfolio = parsedCommand.portfolio,
                                    !.remainingAmount = PortfolioAmount]
    /\ UNCHANGED <<now, tickTimer, timers, heap, tracked, activePollCount, polls, db,
                   provider, calls, pollErrors, unhandled, dca>>

\* An iteration in which a failure propagates out of the loop.
AllocateAborts(outcome) ==
    /\ portfolioRun.pc = "running"
    /\ LET k == portfolioRun.i + 1
       IN IF outcome = "ok" /\ SwapAmount(portfolioRun, k) > 0
          THEN portfolioRun' =
                  [portfolioRun EXCEPT
                     !.i = k, !.quotes = @ + 1,
                     !.remainingAmount = RemainingAfter(portfolioRun, k),
                     !.successfulOrders = Append(@, [order |-> PortfolioOrderId(k),
                                                     allocation |-> portfolioRun.portfolio[k],
                                                     swapAmount |-> SwapAmount(portfolioRun, k)]),
                     !.pc = IF k = Len(portfolioRun.portfolio) THEN "returned" ELSE "running"]
          ELSE portfolioRun' = [portfolioRun EXCEPT !.pc = "rejected", !.error = "aborted"]
    /\ UNCHANGED <<now, tickTimer, timers, heap, tracked, activePollCount, polls, db,
                   provider, calls, pollErrors, unhandled, dca>>

\* One iteration of the loop, for the allocation after the last one processed.
Allocate(outcome) ==
    /\ portfolioRun.pc = "running"
    /\ LET k          == portfolioRun.i + 1
           allocation == portfolioRun.portfolio[k]
           swapAmount == SwapAmount(portfolioRun, k)
           next       == [portfolioRun EXCEPT
                            !.i = k,
                            !.remainingAmount = RemainingAfter(portfolioRun, k),
                            !.pc = IF k = Len(portfolioRun.portfolio)
                                   THEN "returned" ELSE "running"]
       IN IF swapAmount <= 0
          THEN /\ outcome = "ok"
               /\ portfolioRun' =
                     [next EXCEPT !.failedSwaps =
                         Append(@, [asset |-> allocation.toAsset,
                                    reason |-> "Calculated amount too small"])]
               /\ db' = db
          ELSE /\ portfolioRun' =
                     IF outcome = "ok"
                     THEN [next EXCEPT
                             !.quotes = @ + 1,
                             !.successfulOrders =
                                 Append(@, [order |-> PortfolioOrderId(k),
                                            allocation |-> allocation,
                                            swapAmount |-> swapAmount])]
                     ELSE [next EXCEPT
                             !.quotes = @ + 1,
                             !.failedSwaps = Append(@, [asset |-> allocation.toAsset,
                                                        reason |-> Reason(outcome)])]
               /\ db' = IF outcome \in {"ok", "addWatchedOrder rejects"}
                        THEN createOrderEntry(db, PortfolioOrderId(k), OwnerOf("o1"))
                        ELSE db
    /\ UNCHANGED <<now, tickTimer, timers, heap, tracked, activePollCount, polls,
                   provider, calls, pollErrors, unhandled, dca>>

InitPortfolio == InitFor(PortfolioOrderIds)

NextPortfolio ==
    \/ \E parsedCommand \in ParsedCommands : ExecutePortfolioStrategy(parsedCommand)
    \/ \E outcome \in Outcomes : Allocate(outcome)

SpecPortfolio == InitPortfolio /\ [][NextPortfolio]_vars

\* ------------------------------------------------------------ DCA scheduler
\* DCAScheduler with one active schedule row.

\* Check every minute.
CHECK_FREQUENCY == 60 * 1000

\* At most this many start() calls find an interval alive, at most this many
\* checks are in flight when start() is called, and at most this many orders
\* are created.
MaxIntervals == 2
MaxChecks == 2
MaxDcaOrders == 2

\* The order createOrder returns on its k-th call.
DcaOrderId(k) == "d" \o ToString(k)
DcaOrderIds == {DcaOrderId(k) : k \in 1..MaxDcaOrders}

\* db.updateDCAScheduleExecution: next_execution moves one period (a day) past now.
NextExecutionAfter(t) == t + 24 * 3600000

\* A checkSchedules call suspended at `await db.getActiveDCASchedules()`.
LoadCheck == [pc |-> "load", nextExecution |-> 0, order |-> ""]

\* setInterval(() => this.checkSchedules(), CHECK_FREQUENCY) followed by checkSchedules().
StartedDca ==
    LET id == CHOOSE i \in 1..(Cardinality(dca.intervals) + 1) :
                  \A t \in dca.intervals : t.id # i
    IN [dca EXCEPT !.checkInterval = id,
                   !.intervals = @ \cup {[id |-> id, fireAt |-> now + CHECK_FREQUENCY]},
                   !.checks = @ (+) SetToBag({LoadCheck})]

\* start()
DcaStart ==
    /\ Cardinality(dca.intervals) < MaxIntervals
    /\ BagCardinality(dca.checks) < MaxChecks
    /\ dca' = StartedDca
    /\ UNCHANGED <<now, tickTimer, timers, heap, tracked, activePollCount, polls, db,
                   provider, calls, pollErrors, unhandled, portfolioRun>>

\* stop(): clearInterval of the handle held, when there is one.
DcaStop ==
    /\ dca' = IF dca.checkInterval # 0
              THEN [dca EXCEPT !.intervals = {t \in @ : t.id # dca.checkInterval},
                               !.checkInterval = 0]
              ELSE dca
    /\ UNCHANGED <<now, tickTimer, timers, heap, tracked, activePollCount, polls, db,
                   provider, calls, pollErrors, unhandled, portfolioRun>>

\* A minute passes, unless an interval is due.
DcaTimePasses ==
    /\ now - StartTime < MaxClockSteps * CHECK_FREQUENCY
    /\ \A t \in dca.intervals : now < t.fireAt
    /\ now' = now + CHECK_FREQUENCY
    /\ UNCHANGED <<tickTimer, timers, heap, tracked, activePollCount, polls, db, provider,
                   calls, pollErrors, unhandled, portfolioRun, dca>>

\* An interval fires: checkSchedules() runs up to its first await.
DcaIntervalFires(t) ==
    /\ t \in dca.intervals
    /\ now >= t.fireAt
    /\ dca' = [dca EXCEPT
                 !.intervals = (@ \ {t}) \cup {[t EXCEPT !.fireAt = @ + CHECK_FREQUENCY]},
                 !.checks = @ (+) SetToBag({LoadCheck})]
    /\ UNCHANGED <<now, tickTimer, timers, heap, tracked, activePollCount, polls, db,
                   provider, calls, pollErrors, unhandled, portfolioRun>>

\* getActiveDCASchedules settles: the due test on the row read, then
\* executeSchedule up to `await createQuote`; a rejection ends the check.
CheckLoads(c, ok) ==
    /\ BagIn(c, dca.checks) /\ c.pc = "load"
    /\ dca' = [dca EXCEPT
                 !.checks = IF ok /\ now >= dca.nextExecution
                            THEN (@ (-) SetToBag({c}))
                                   (+) SetToBag({[c EXCEPT !.pc = "quote",
                                                           !.nextExecution = dca.nextExecution]})
                            ELSE @ (-) SetToBag({c})]
    /\ UNCHANGED <<now, tickTimer, timers, heap, tracked, activePollCount, polls, db,
                   provider, calls, pollErrors, unhandled, portfolioRun>>

\* createQuote and createOrder settle: an order exists at SideShift, or the
\* catch block ends executeSchedule.
ExecuteOrders(c, ok) ==
    /\ BagIn(c, dca.checks) /\ c.pc = "quote"
    /\ ok => Len(dca.orders) < MaxDcaOrders
    /\ dca' = IF ok
              THEN LET id == DcaOrderId(Len(dca.orders) + 1)
                   IN [dca EXCEPT
                         !.orders = Append(@, [id |-> id, occurrence |-> c.nextExecution]),
                         !.checks = (@ (-) SetToBag({c}))
                                      (+) SetToBag({[c EXCEPT !.pc = "store", !.order = id]})]
              ELSE [dca EXCEPT !.checks = @ (-) SetToBag({c})]
    /\ UNCHANGED <<now, tickTimer, timers, heap, tracked, activePollCount, polls, db,
                   provider, calls, pollErrors, unhandled, portfolioRun>>

\* createOrderEntry, addWatchedOrder and updateDCAScheduleExecution settle:
\* the row is stored and the schedule advanced, or a rejection of the insert
\* ends executeSchedule.
ExecuteStores(c, ok) ==
    /\ BagIn(c, dca.checks) /\ c.pc = "store"
    /\ db' = IF ok THEN createOrderEntry(db, c.order, OwnerOf("o1")) ELSE db
    /\ dca' = [dca EXCEPT
                 !.nextExecution = IF ok THEN NextExecutionAfter(now) ELSE @,
                 !.checks = @ (-) SetToBag({c})]
    /\ UNCHANGED <<now, tickTimer, timers, heap, tracked, activePollCount, polls,
                   provider, calls, pollErrors, unhandled, portfolioRun>>

\* The checks a scheduler can have in flight.
DcaChecks == DOMAIN dca.checks

\* The schedule is due at startup or a minute later.
InitDca ==
    /\ now = StartTime
    /\ tickTimer = 0
    /\ timers = {}
    /\ heap = <<>>
    /\ tracked = <<>>
    /\ activePollCount = 0
    /\ polls = EmptyBag
    /\ db = [o \in DcaOrderIds |-> NoRow]
    /\ provider = [o \in DcaOrderIds |-> "pending"]
    /\ calls = [o \in DcaOrderIds |-> <<>>]
    /\ pollErrors = {}
    /\ unhandled = FALSE
    /\ portfolioRun = IdlePortfolioRun
    /\ \E due \in {StartTime, StartTime + CHECK_FREQUENCY} :
          dca = [IdleDca EXCEPT !.nextExecution = due]

NextDca ==
    \/ DcaStart
    \/ DcaStop
    \/ DcaTimePasses
    \/ \E t \in dca.intervals : DcaIntervalFires(t)
    \/ \E c \in DcaChecks, ok \in BOOLEAN : CheckLoads(c, ok)
    \/ \E c \in DcaChecks, ok \in BOOLEAN : ExecuteOrders(c, ok)
    \/ \E c \in DcaChecks, ok \in BOOLEAN : ExecuteStores(c, ok)

SpecDca == InitDca /\ [][NextDca]_vars

\* ------------------------------------------------------------ properties

\* The onStatusChange call a poll p makes for its transition.
NotifyOf(p, threw) ==
    NotifyCall(heap[p.ref], p.oldStatus, p.newStatus,
               [id |-> heap[p.ref].orderId, status |-> p.newStatus], threw)

\* A poll step: some pollOrder invocation resumes and runs to its next await or its end.
WriteStep(p) == WriteOk(p, TRUE) \/ WriteOk(p, FALSE) \/ WriteFail(p)

\* C1: whatever the interleaving of ticks and poll completions, at most
\* MAX_CONCURRENT polls are in flight, and activePollCount is their number.
C1_InFlightWithinCap ==
    /\ InFlight <= MAX_CONCURRENT
    /\ activePollCount = InFlight

\* C1 witness: a tick fired while the five polls of the previous tick were
\* still awaiting, and the sixth order, due, was not dispatched.
C1_Witness ==
    /\ InFlight = MAX_CONCURRENT
    /\ now >= StartTime + 2 * TICK_INTERVAL
    /\ \A t \in timers : t.fireAt > now
    /\ \E i \in DOMAIN tracked :
          /\ IsDue(heap[tracked[i]], now)
          /\ PollsOn(heap[tracked[i]].orderId) = {}

\* C2: while the monitor runs and every getOrderStatus call returns or fails, a
\* tracked order that is due and has no poll in flight is eventually dispatched
\* to the poller (or is no longer tracked).
C2_DueOrderEventuallyPolled ==
    \A r \in StarveRefs :
        (r \in DOMAIN heap /\ Has(heap[r].orderId) /\ IsDue(heap[r], now)
            /\ PollsOn(heap[r].orderId) = {})
        ~> (PollsOn(heap[r].orderId) # {} \/ ~Has(heap[r].orderId))

\* An order whose terminal status has been delivered to onStatusChange.
TerminalNotified(log) ==
    \E i \in DOMAIN log : IsNotify(log[i]) /\ ~log[i].threw /\ IsTerminal(log[i].newStatus)

\* C3: when a poll fetched a terminal status that differs from lastStatus and
\* updateOrderStatus succeeds, onStatusChange is invoked exactly once with
\* (owner, order, old, new, record) and the order is absent from the registry when
\* the poll has finished; afterwards no tick polls the order and no notification
\* is made for it.
C3_TerminalChangeNotifiedAndRemoved ==
    [][/\ \A p \in PollSet : \A threw \in BOOLEAN :
             (WriteOk(p, threw) /\ IsTerminal(p.newStatus)) =>
                 LET o == heap[p.ref].orderId
                 IN /\ NotifyCount(calls'[o]) = NotifyCount(calls[o]) + 1
                    /\ calls'[o][Len(calls'[o])] = NotifyOf(p, threw)
                    /\ ~HasIn(heap', tracked', o)
       /\ \A o \in DOMAIN calls :
             TerminalNotified(calls[o]) =>
                 /\ NotifyCount(calls'[o]) = NotifyCount(calls[o])
                 /\ \A t \in timers : Tick(t) =>
                        \A i \in DOMAIN Batch : heap[Batch[i]].orderId # o]_vars

\* C4: a poll whose getOrderStatus fails leaves the registry entry, lastStatus and
\* lastChecked as they were and makes no updateOrderStatus or onStatusChange call;
\* a later poll of that order whose calls all succeed notifies its terminal status
\* once and removes the order.
C4_FetchFailureLeavesOrder ==
    [][\A p \in PollSet :
          /\ FetchFail(p) =>
                /\ tracked' = tracked
                /\ heap' = heap
                /\ db' = db
                /\ calls' = calls
          /\ (WriteOk(p, FALSE) /\ IsTerminal(p.newStatus)
                /\ heap[p.ref].orderId \in pollErrors) =>
                LET o == heap[p.ref].orderId
                IN /\ calls'[o] = calls[o] \o <<UpdateCall(p.newStatus, TRUE), NotifyOf(p, FALSE)>>
                   /\ ~HasIn(heap', tracked', o)]_vars

\* C4 witness: an order whose first poll failed was later notified of a terminal
\* status, once, and removed.
C4_Witness ==
    \E o \in OrderIds :
        /\ o \in pollErrors
        /\ ~Has(o)
        /\ NotifyCount(calls[o]) = 1
        /\ \E i \in DOMAIN calls[o] :
              /\ calls[o][i].op = "notify"
              /\ calls[o][i].oldStatus = "pending"
              /\ calls[o][i].newStatus = "settled"
              /\ ~calls[o][i].threw

C6_NotifyFailureStillRemoves ==
    [][\A p \in PollSet :
          (WriteOk(p, TRUE) /\ IsTerminal(p.newStatus)) =>
              ~HasIn(heap', tracked', heap[p.ref].orderId)]_vars

C8_PersistedStatusCatchesUp ==
    \A o \in RecoverIds :
        (FailedUpdateCount(calls[o]) > 0) ~> (db[o].status = heap[1].lastStatus)

\* C9: every poll that changed lastStatus makes exactly one onStatusChange call
\* carrying (owner, order, previous lastStatus, fetched status, record) with
\* old # new, so lastStatus never changes without a notification.
C9_EveryTransitionNotified ==
    [][\A p \in PollSet :
          WriteStep(p) =>
              LET o == heap[p.ref].orderId
              IN /\ p.oldStatus # p.newStatus
                 /\ NotifyCount(calls'[o]) = NotifyCount(calls[o]) + 1
                 /\ \E threw \in BOOLEAN : calls'[o][Len(calls'[o])] = NotifyOf(p, threw)]_vars

\* C10: a tracked order on which no poll is in flight never has a terminal lastStatus.
C10_NoTerminalOrderTracked ==
    \A i \in DOMAIN tracked :
        PollsOn(heap[tracked[i]].orderId) = {} => ~IsTerminal(heap[tracked[i]].lastStatus)

\* C11: two polls of the same order id are never in flight at the same time;
\* a tick does not dispatch an order whose earlier poll has not finished.
C11_OnePollPerOrder ==
    \A r \in DOMAIN heap :
        BagCardinality([p \in {q \in PollSet : heap[q.ref].orderId = heap[r].orderId}
                          |-> CopiesIn(p, polls)]) <= 1

\* C12: every order whose row in the orders table has a non-terminal status
\* eventually appears in the registry, also a row created while the monitor runs.
C12_StoredOrderEventuallyTracked ==
    \A o \in IntakeIds :
        (db[o] # NoRow /\ db[o].status \notin TERMINAL_STATUSES)
        ~> (Has(o) \/ db[o].status \in TERMINAL_STATUSES)

\* C13: a successful loadPendingOrders leaves every returned order in the
\* registry with lastStatus equal to its persisted status, and the first poll of
\* such an order calls onStatusChange, with the persisted status as old status,
\* exactly when the fetched status differs from the persisted one.
C13_LoadedStatusDrivesFirstPoll ==
    [][/\ LoadPendingOrders =>
             \A o \in PendingIds :
                 /\ HasIn(heap', tracked', o)
                 /\ heap'[GetIn(heap', tracked', o)].lastStatus = db[o].status
       /\ \A p \in PollSet :
             LET o == heap[p.ref].orderId
             IN /\ (FetchOk(p) /\ provider[o] = heap[p.ref].lastStatus) => calls' = calls
                /\ (WriteStep(p) /\ calls[o] = <<>> /\ p.oldStatus = db[o].status) =>
                       /\ NotifyCount(calls'[o]) = 1
                       /\ calls'[o][Len(calls'[o])].oldStatus = db[o].status
                       /\ calls'[o][Len(calls'[o])].newStatus = p.newStatus]_vars

\* C14: when getPendingOrders fails, loadPendingOrders ends without throwing
\* and leaves the registry, the timer and the polls as they were.
C14_LoadFailureLeavesRegistry ==
    [][LoadPendingOrdersFail =>
          /\ tracked' = tracked
          /\ heap' = heap
          /\ tickTimer' = tickTimer /\ timers' = timers
          /\ polls' = polls
          /\ ~unhandled']_vars

\* C14 witness: a load failed, start() was called and a tick dispatched the
\* orders an earlier load had brought in.
C14_Witness ==
    /\ LoadError \in pollErrors
    /\ tickTimer # 0
    /\ trackedCount = 2
    /\ \A i \in DOMAIN tracked : BagIn(FetchPoll(tracked[i]), polls)

\* The timer bookkeeping of start/stop: tickTimer is null and no interval is
\* alive, or tickTimer is the handle of the only interval alive.
OneTimer ==
    \/ tickTimer = 0 /\ timers = {}
    \/ tickTimer # 0 /\ Cardinality(timers) = 1 /\ \A t \in timers : t.id = tickTimer

\* C15: after any sequence of start() and stop() at most one tick timer is
\* active; start() while running and stop() while stopped change nothing, and
\* the monitor runs exactly when the last effective call was start().
C15_AtMostOneTimer ==
    [][/\ OneTimer /\ OneTimer'
       /\ Start => (tickTimer' # 0 /\ (tickTimer # 0 => UNCHANGED <<tickTimer, timers>>))
       /\ Stop => (tickTimer' = 0 /\ (tickTimer = 0 => UNCHANGED <<tickTimer, timers>>))
       /\ (tickTimer' # tickTimer) => (Start \/ Stop)]_vars

\* C15 witness: the monitor was started, ticked and was stopped again: no
\* timer is left while the poll of that tick is still in flight.
C15_Witness ==
    /\ tickTimer = 0 /\ timers = {}
    /\ InFlight > 0
    /\ now > StartTime

\* C16: while the monitor is stopped no tick runs and no getOrderStatus call
\* is started, whatever is tracked or due.
C16_NoPollWhileStopped ==
    [][tickTimer = 0 =>
          /\ \A t \in timers : ~Tick(t)
          /\ \A r \in DOMAIN heap :
                CopiesIn(FetchPoll(r), polls') <= CopiesIn(FetchPoll(r), polls)
          /\ activePollCount' <= activePollCount]_vars

\* C16 witness: the monitor is stopped; an order whose poll failed is tracked
\* and due at the time the next tick would have fired, and nothing is in flight.
C16_Witness ==
    /\ tickTimer = 0
    /\ now = StartTime + 2 * TICK_INTERVAL
    /\ InFlight = 0
    /\ \E i \in DOMAIN tracked :
          /\ heap[tracked[i]].orderId \in pollErrors
          /\ IsDue(heap[tracked[i]], now)

\* C17: stop() leaves the polls in flight alone, and a poll that resumes while
\* the monitor is stopped stamps lastChecked, sets lastStatus, writes, notifies
\* and untracks a terminal order as it does while running.
C17_SoftStop ==
    [][/\ Stop => (polls' = polls /\ activePollCount' = activePollCount
                      /\ heap' = heap /\ tracked' = tracked)
       /\ \A p \in PollSet :
             LET o == heap[p.ref].orderId
             IN /\ (tickTimer = 0 /\ FetchOk(p)) =>
                       /\ heap'[p.ref].lastChecked = now
                       /\ heap'[p.ref].lastStatus = provider[o]
                       /\ provider[o] # heap[p.ref].lastStatus =>
                              BagIn(WritePoll(p.ref, heap[p.ref].lastStatus, provider[o]), polls')
                /\ (tickTimer = 0 /\ WriteOk(p, FALSE)) =>
                       /\ db'[o].status = p.newStatus
                       /\ calls'[o] = calls[o] \o <<UpdateCall(p.newStatus, TRUE),
                                                     NotifyOf(p, FALSE)>>
                       /\ IsTerminal(p.newStatus) => ~HasIn(heap', tracked', o)]_vars

\* C17 witness: the monitor is stopped, and the poll that was in flight has
\* since fetched a terminal status, written it, notified and untracked the order.
C17_Witness ==
    /\ tickTimer = 0
    /\ now = StartTime + TICK_INTERVAL
    /\ ~Has("l1")
    /\ db["l1"].status = "settled"
    /\ calls["l1"] = <<UpdateCall("settled", TRUE),
                        NotifyCall([telegramId |-> OwnerOf("l1"), orderId |-> "l1"],
                                   "processing", "settled",
                                   [id |-> "l1", status |-> "settled"], FALSE)>>

\* Every onStatusChange call in a call log directly follows the resolved
\* updateOrderStatus call for the same status.
WriteBeforeNotify(log) ==
    \A i \in DOMAIN log :
        IsNotify(log[i]) => (i > 1 /\ log[i - 1] = UpdateCall(log[i].newStatus, TRUE))

\* C18: for each detected change updateOrderStatus has resolved before
\* onStatusChange is called, and a terminal order leaves the registry only after
\* both calls have been made.
C18_WriteThenNotifyThenRemove ==
    [][\A o \in DOMAIN calls :
          /\ WriteBeforeNotify(calls'[o])
          /\ (Has(o) /\ ~HasIn(heap', tracked', o)) =>
                LET n == Len(calls'[o])
                IN /\ n >= 2
                   /\ calls'[o][n - 1].op = "update" /\ calls'[o][n - 1].ok
                   /\ IsTerminal(calls'[o][n - 1].status)
                   /\ IsNotify(calls'[o][n])
                   /\ calls'[o][n].newStatus = calls'[o][n - 1].status
                   /\ db'[o].status = calls'[o][n].newStatus]_vars

\* C18 witness: a change to processing and then one to settled were each written
\* and then notified, and the order has left the registry.
C18_Witness ==
    \E o \in OrderIds :
        /\ ~Has(o)
        /\ Len(calls[o]) = 4
        /\ calls[o][1] = UpdateCall("processing", TRUE)
        /\ IsNotify(calls[o][2]) /\ calls[o][2].newStatus = "processing"
        /\ calls[o][3] = UpdateCall("settled", TRUE)
        /\ IsNotify(calls[o][4]) /\ calls[o][4].oldStatus = "processing"
        /\ db[o].status = "settled"

\* A step in which the poll p fails: its fetch or its write rejects, or
\* onStatusChange throws.
PollFails(p) == FetchFail(p) \/ WriteFail(p) \/ WriteOk(p, TRUE)

\* C19: the failure of one poll (fetch, write or notification) leaves every
\* other poll in flight, and the TrackedOrder, registry entry, table row and call
\* log of every other order, as they are.
C19_FailureIsolatedToItsPoll ==
    [][\A p \in PollSet :
          PollFails(p) =>
              /\ polls' = polls (-) SetToBag({p})
              /\ activePollCount' = activePollCount - 1
              /\ \A r \in DOMAIN heap : r # p.ref => heap'[r] = heap[r]
              /\ tracked' = tracked
              /\ \A o \in DOMAIN db : o # heap[p.ref].orderId =>
                     (db'[o] = db[o] /\ calls'[o] = calls[o])
              /\ ~unhandled']_vars

\* C19 witness: of the two polls of the first tick one failed at its fetch; the
\* other wrote, notified and untracked its settled order.
C19_Witness ==
    /\ now = StartTime + TICK_INTERVAL
    /\ InFlight = 0
    /\ "o1" \in pollErrors /\ Has("o1") /\ calls["o1"] = <<>>
    /\ ~Has("o2") /\ db["o2"].status = "settled"
    /\ NotifyCount(calls["o2"]) = 1

\* C20: a tick dispatches a tracked order only if now - lastChecked is at least
\* the backoff interval of its age, dispatches no order twice, and dispatches
\* every due order when the due orders fit the remaining budget.
C20_TickDispatchesDueOrders ==
    [][\A t \in timers :
          Tick(t) =>
              LET Due == {r \in DOMAIN heap :
                             /\ \E i \in DOMAIN tracked : tracked[i] = r
                             /\ now - heap[r].lastChecked
                                    >= getBackoffInterval(now - heap[r].createdAt)}
                  New(r) == CopiesIn(FetchPoll(r), polls') - CopiesIn(FetchPoll(r), polls)
              IN /\ \A r \in DOMAIN heap :
                       /\ New(r) \in {0, 1}
                       /\ New(r) = 1 => r \in Due
                 /\ Cardinality(Due) <= MAX_CONCURRENT - activePollCount =>
                       \A r \in Due : New(r) = 1
                 /\ activePollCount' - activePollCount
                        = Cardinality({r \in DOMAIN heap : New(r) = 1})]_vars

\* C20 witness: the second tick has fired; an order polled 10 s ago is tracked,
\* not due and was left alone, while a due order was dispatched.
C20_Witness ==
    /\ now = StartTime + 2 * TICK_INTERVAL
    /\ \A t \in timers : t.fireAt > now
    /\ \E i, j \in DOMAIN tracked :
          /\ heap[tracked[i]].lastChecked = StartTime + TICK_INTERVAL
          /\ ~IsDue(heap[tracked[i]], now)
          /\ PollsOn(heap[tracked[i]].orderId) = {}
          /\ heap[tracked[j]].lastChecked = 0
          /\ BagIn(FetchPoll(tracked[j]), polls)

\* C21: a poll that fetches the status the order already has changes nothing
\* but lastChecked: no write, no notification, lastStatus and the registry as
\* they were.
C21_UnchangedStatusOnlyStamps ==
    [][\A p \in PollSet :
          (FetchOk(p) /\ provider[heap[p.ref].orderId] = heap[p.ref].lastStatus) =>
              /\ heap' = [heap EXCEPT ![p.ref].lastChecked = now]
              /\ tracked' = tracked
              /\ db' = db
              /\ calls' = calls
              /\ polls' = polls (-) SetToBag({p})]_vars

\* C21 witness: an order was polled, its status was the registered one, and it
\* is tracked with lastChecked stamped and no call made for it.
C21_Witness ==
    \E o \in OrderIds :
        /\ Has(o)
        /\ heap[Get(o)].lastChecked = now /\ now > StartTime
        /\ heap[Get(o)].lastStatus = "pending"
        /\ provider[o] = "pending"
        /\ calls[o] = <<>>
        /\ o \notin pollErrors
        /\ InFlight = 0

\* C26: when a poll fetched a non-terminal status that differs from lastStatus
\* and its write succeeds, the order is in the registry with lastStatus equal to
\* the fetched status when the poll ends, and exactly one notification was made.
C26_NonTerminalChangeKeepsOrder ==
    [][\A p \in PollSet : \A threw \in BOOLEAN :
          (WriteOk(p, threw) /\ ~IsTerminal(p.newStatus)) =>
              LET o == heap[p.ref].orderId
              IN /\ HasIn(heap', tracked', o)
                 /\ heap'[p.ref].lastStatus = p.newStatus
                 /\ NotifyCount(calls'[o]) = NotifyCount(calls[o]) + 1]_vars

\* C27: activePollCount is the number of pollOrder invocations in flight, never
\* negative, and every step that ends a poll, however it ends, decrements it once.
C27_ActivePollCountIsInFlight ==
    [][/\ activePollCount' = BagCardinality(polls') /\ activePollCount' >= 0
       /\ \A p \in PollSet :
             (PollFails(p) \/ WriteOk(p, FALSE)
                \/ (FetchOk(p) /\ provider[heap[p.ref].orderId] = heap[p.ref].lastStatus))
             => activePollCount' = activePollCount - 1]_vars

\* C27 witness: polls have ended in a fetch failure, a write failure and a
\* throwing notification, and with nothing in flight the counter is 0.
C27_Witness ==
    /\ activePollCount = 0 /\ InFlight = 0
    /\ pollErrors # {}
    /\ \E o \in OrderIds : FailedUpdateCount(calls[o]) > 0
    /\ \E o \in OrderIds : \E i \in DOMAIN calls[o] : IsNotify(calls[o][i]) /\ calls[o][i].threw

\* C29: the notifications of an order form a chain: the first has the status
\* the order was registered with as oldStatus, and each later one has the
\* newStatus of the one before it as oldStatus.
C29_NotificationsChain ==
    \A o \in OrderIds :
        LET notes == SelectSeq(calls[o], IsNotify)
        IN \A i \in DOMAIN notes :
              notes[i].oldStatus = IF i = 1 THEN "pending" ELSE notes[i - 1].newStatus


\* C22: trackOrder for an id already tracked leaves trackedCount and every
\* field of the existing entry as they were, untrackOrder for an id that is
\* not tracked changes nothing, and the registry never holds two entries for
\* one orderId.
C22_RegistryCallsIdempotent ==
    /\ \A o \in OrderIds :
          /\ Has(o) =>
                \A tel \in TelegramIds, c \in CreatedAts :
                    /\ trackOrderHeap(heap, tracked, o, tel, c) = heap
                    /\ trackOrderMap(heap, tracked, o) = tracked
          /\ ~Has(o) => untrackOrderMap(heap, tracked, o) = tracked
    /\ \A i, j \in DOMAIN tracked :
          heap[tracked[i]].orderId = heap[tracked[j]].orderId => i = j

\* An entry that has been polled and has changed status is tracked, the other id is not.
C22_Witness ==
    /\ Has("o1") /\ ~Has("o2") /\ trackedCount = 1
    /\ heap[Get("o1")].lastChecked > 0
    /\ heap[Get("o1")].lastStatus = "processing"

\* C28: once untrackOrder(id) has returned and until the id is tracked again,
\* the monitor makes no updateOrderStatus call and no onStatusChange call for it.
C28_NoCallsAfterUntrack ==
    [][\A o \in OrderIds : (~Has(o) /\ ~Has(o)') => calls'[o] = calls[o]]_vars

\* C23: the interval between two polls of an order of age a is 15 s when
\* a < 5 min, 60 s when 5 min <= a < 30 min, 5 min when 30 min <= a < 2 h and
\* 15 min when a >= 2 h (299999 ms gives 15 s, 300000 ms gives 60 s), and a
\* tick polls the order exactly when that interval has elapsed.
C23_BackoffBands ==
    [][\A t \in timers : \A i \in DOMAIN tracked :
          LET order == heap[tracked[i]]
              a == now - order.createdAt
              band == CASE a < 300000 -> 15000
                        [] a >= 300000 /\ a < 1800000 -> 60000
                        [] a >= 1800000 /\ a < 7200000 -> 300000
                        [] a >= 7200000 -> 900000
          IN /\ getBackoffInterval(a) = band
             /\ getBackoffInterval(299999) = 15000
             /\ getBackoffInterval(300000) = 60000
             /\ Tick(t) =>
                   (now - order.lastChecked >= band <=>
                       CopiesIn(FetchPoll(tracked[i]), polls') = CopiesIn(FetchPoll(tracked[i]), polls) + 1)]_vars

\* An order one millisecond short of five minutes, polled 15 s after its last poll.
C23_Witness ==
    /\ tracked = <<1>>
    /\ now - heap[1].createdAt = 299999
    /\ now - heap[1].lastChecked = 15000
    /\ CopiesIn(FetchPoll(1), polls) = 1

\* C24: the monitor's terminal statuses are exactly settled, expired,
\* refunded and failed, and getPendingOrders leaves out the rows in exactly
\* those statuses: startup tracks a stored order iff its status is none of
\* the four, and a poll stops tracking an order iff the status it fetched and
\* wrote is one of the four.
C24_TerminalSetsAgree ==
    [][LET four == {"settled", "expired", "refunded", "failed"}
       IN /\ \A s \in TERMINAL_STATUSES \cup NON_TERMINAL_STATUSES : IsTerminal(s) <=> s \in four
          /\ PendingIds = {o \in DOMAIN db : db[o] # NoRow /\ db[o].status \notin four}
          /\ LoadPendingOrders =>
                \A o \in OrderIds : Has(o)' <=> (Has(o) \/ db[o].status \notin four)
          /\ \A p \in PollSet :
                WriteOk(p, FALSE) =>
                    (HasIn(heap', tracked', heap[p.ref].orderId) <=> p.newStatus \notin four)]_vars

\* Startup skipped the refunded order o1 and tracked the waiting order o2,
\* which a poll then found expired and removed.
C24_Witness ==
    /\ db["o1"].status = "refunded" /\ db["o2"].status = "expired"
    /\ Len(heap) = 1 /\ heap[1].orderId = "o2" /\ heap[1].lastStatus = "expired"
    /\ tracked = <<>>
    /\ NotifyCount(calls["o2"]) = 1 /\ calls["o2"][2].oldStatus = "waiting"

\* C25: executePortfolioStrategy on a non-empty portfolio processes the
\* allocations one by one in order, each one ending in exactly one of
\* successfulOrders and failedSwaps, so that on return the two lengths sum to
\* the portfolio length; a failed quote, order or database call is recorded in
\* failedSwaps with its reason and the loop goes on; an empty or missing
\* portfolio is rejected before any quote is requested.
C25_EveryAllocationAccounted ==
    [][LET run == portfolioRun
           k == run.i + 1
       IN /\ \A outcome \in Outcomes :
                Allocate(outcome) =>
                    LET a == run.portfolio[k]
                        succeeded ==
                            /\ Len(portfolioRun'.successfulOrders) = Len(run.successfulOrders) + 1
                            /\ SubSeq(portfolioRun'.successfulOrders, 1, Len(run.successfulOrders))
                                   = run.successfulOrders
                            /\ portfolioRun'.successfulOrders[Len(run.successfulOrders) + 1].allocation = a
                            /\ portfolioRun'.failedSwaps = run.failedSwaps
                        failed ==
                            /\ Len(portfolioRun'.failedSwaps) = Len(run.failedSwaps) + 1
                            /\ SubSeq(portfolioRun'.failedSwaps, 1, Len(run.failedSwaps))
                                   = run.failedSwaps
                            /\ portfolioRun'.failedSwaps[Len(run.failedSwaps) + 1].asset = a.toAsset
                            /\ portfolioRun'.failedSwaps[Len(run.failedSwaps) + 1].reason # ""
                            /\ portfolioRun'.successfulOrders = run.successfulOrders
                    IN /\ portfolioRun'.i = k
                       /\ succeeded \/ failed
                       /\ (outcome # "ok" /\ SwapAmount(run, k) > 0) =>
                             /\ failed
                             /\ portfolioRun'.failedSwaps[Len(run.failedSwaps) + 1].reason
                                    = Reason(outcome)
                       /\ portfolioRun'.pc =
                             IF k = Len(run.portfolio) THEN "returned" ELSE "running"
          /\ \A parsedCommand \in ParsedCommands :
                ExecutePortfolioStrategy(parsedCommand) =>
                    IF ~parsedCommand.hasPortfolio \/ parsedCommand.portfolio = <<>>
                    THEN /\ portfolioRun'.pc = "rejected"
                         /\ portfolioRun'.error = "No portfolio allocation found"
                    ELSE /\ portfolioRun'.pc = "running"
                         /\ portfolioRun'.portfolio = parsedCommand.portfolio
          /\ portfolioRun'.pc = "rejected" => portfolioRun'.quotes = 0
          /\ portfolioRun'.pc \in {"running", "returned"} =>
                Len(portfolioRun'.successfulOrders) + Len(portfolioRun'.failedSwaps)
                    = portfolioRun'.i
          /\ portfolioRun'.pc = "returned" =>
                /\ portfolioRun'.i = Len(portfolioRun'.portfolio)
                /\ Len(portfolioRun'.portfolio) > 0]_vars

\* The first quote of a two-asset portfolio was rejected and the second swap went through.
C25_Witness ==
    /\ portfolioRun.pc = "returned"
    /\ Len(portfolioRun.portfolio) = 2
    /\ Len(portfolioRun.failedSwaps) = 1
    /\ portfolioRun.failedSwaps[1] = [asset |-> "BTC", reason |-> "Liquidity Error"]
    /\ Len(portfolioRun.successfulOrders) = 1
    /\ portfolioRun.successfulOrders[1].order = PortfolioOrderId(2)

\* C30: the scheduler creates at most one order per due nextExecution value
\* of a schedule, whatever the interleaving of the immediate check of start(),
\* the interval checks and repeated start() calls, and once stop() has run no
\* check is started until the next start().
C30_OneOrderPerOccurrence ==
    [][/\ \A i, j \in DOMAIN dca'.orders :
             dca'.orders[i].occurrence = dca'.orders[j].occurrence => i = j
       /\ (dca.checkInterval = 0 /\ dca'.checkInterval = 0) =>
             CopiesIn(LoadCheck, dca'.checks) <= CopiesIn(LoadCheck, dca.checks)]_vars
====
